---------------------------- MODULE Spec2Model ----------------------------
(***************************************************************************)
(* A model of ella.core.views: the object-detail and content-listing       *)
(* request flows, the process-wide content-type cache and the template     *)
(* fallback chain.                                                         *)
(*                                                                         *)
(* Conventions.  An optional Python value is a sequence of length at most  *)
(* one: <<>> is None and <<v>> is the value v.  URL parameters that the    *)
(* code parses or compares character by character (content-type slugs,     *)
(* year/month/day, the page parameter, the url remainder) are sequences of *)
(* one-character strings; names that are only pasted into template paths   *)
(* are TLA+ strings.                                                       *)
(***************************************************************************)
EXTENDS Integers, Sequences, FiniteSets, TLC

VARIABLES
    CONTENT_TYPE_MAPPING, \* views.py:19, the process-wide slug -> ContentType dict
    placements,           \* the Placement rows of the database
    pc,                   \* per worker: position in the request being served
    request,              \* per worker: the arguments of the view call
    ct,                   \* per worker: local `ct` (Option of a ContentType)
    cat,                  \* per worker: local `cat` (Option of a Category)
    placement,            \* per worker: local `placement` (Option)
    listing,              \* per worker: locals of ListContentType.get_context
    context,              \* per worker: the context dictionary (Option)
    response,             \* per worker: what the view call returned or raised
    trace,                \* history: the resolution steps the request completed
    cached_at_call,       \* history: was ct_name cached when get_content_type began
    scanned,              \* history: did this call of get_content_type scan the models
    returned,             \* history: per slug, every identifier get_content_type returned
    targs,                \* arguments of a direct call of the template functions
    tresult               \* its result (Option)

vars == <<CONTENT_TYPE_MAPPING, placements, pc, request, ct, cat, placement, listing,
          context, response, trace, cached_at_call, scanned, returned, targs, tresult>>

flowVars == <<CONTENT_TYPE_MAPPING, placements, pc, request, ct, cat, placement, listing,
              context, response, trace, cached_at_call, scanned, returned>>

-----------------------------------------------------------------------------
(* Python values *)

None == <<>>
Some(v) == <<v>>
IsNone(o) == o = <<>>
Val(o) == o[1]

\* Python truth value of an optional string: None and the empty string are false.
\* Truthy is for TLA+ strings, TruthyChars for character sequences.
Truthy(o) == o # <<>> /\ o[1] # ""
TruthyChars(o) == o # <<>> /\ o[1] # <<>>

Digits == <<"0", "1", "2", "3", "4", "5", "6", "7", "8", "9">>
UpperAlpha == <<"A", "B", "C", "D", "E", "F", "G", "H", "I", "J", "K", "L", "M",
                "N", "O", "P", "Q", "R", "S", "T", "U", "V", "W", "X", "Y", "Z">>
LowerAlpha == <<"a", "b", "c", "d", "e", "f", "g", "h", "i", "j", "k", "l", "m",
                "n", "o", "p", "q", "r", "s", "t", "u", "v", "w", "x", "y", "z">>

\* U+00B2, SUPERSCRIPT TWO, as one character: a digit for str.isdigit, no
\* decimal digit for int.
SuperscriptTwo == "sup2"

Range(s) == {s[i] : i \in DOMAIN s}
IsDigitChar(c) == c \in Range(Digits) \cup {SuperscriptTwo}
\* U+000B, the vertical tab, as one character.
VerticalTab == "vt"

\* The characters that \s of re and str.strip take as whitespace.
Whitespace == {" ", "\t", "\n", "\r", "\f", VerticalTab}
IsSpaceChar(c) == c \in Whitespace
IsWordChar(c) == c \in Range(Digits) \cup Range(UpperAlpha) \cup Range(LowerAlpha) \cup {"_"}
DigitValue(c) == (CHOOSE i \in DOMAIN Digits : Digits[i] = c) - 1
Lower(c) == IF c \in Range(UpperAlpha)
            THEN LowerAlpha[CHOOSE i \in DOMAIN UpperAlpha : UpperAlpha[i] = c]
            ELSE c

\* str.isdigit(): non-empty and every character a digit.
IsDigit(s) == s # <<>> /\ \A i \in DOMAIN s : IsDigitChar(s[i])

\* The digits of a decimal literal of int: non-empty, "0".."9" only.
IsDecimal(s) == s # <<>> /\ \A i \in DOMAIN s : s[i] \in Range(Digits)

RECURSIVE DigitsToInt(_)
DigitsToInt(s) == IF s = <<>> THEN 0
                  ELSE 10 * DigitsToInt(SubSeq(s, 1, Len(s) - 1)) + DigitValue(s[Len(s)])

\* str.strip(): surrounding whitespace removed.
RECURSIVE StripLeft(_)
StripLeft(s) == IF s # <<>> /\ IsSpaceChar(s[1]) THEN StripLeft(Tail(s)) ELSE s
RECURSIVE StripRight(_)
StripRight(s) == IF s # <<>> /\ IsSpaceChar(s[Len(s)])
                 THEN StripRight(SubSeq(s, 1, Len(s) - 1)) ELSE s
Strip(s) == StripRight(StripLeft(s))

\* A digit sequence without its leading zeros.
RECURSIVE StripZeros(_)
StripZeros(s) == IF s # <<>> /\ s[1] = "0" THEN StripZeros(Tail(s)) ELSE s

\* Of two digit sequences of one length, is a the greater number.
RECURSIVE DigitsGreater(_, _)
DigitsGreater(a, b) ==
    IF a = <<>> THEN FALSE
    ELSE IF a[1] # b[1] THEN DigitValue(a[1]) > DigitValue(b[1])
    ELSE DigitsGreater(Tail(a), Tail(b))

\* Is the number of the digit sequence greater than that of `limit`.
ExceedsDigits(digits, limit) ==
    LET d == StripZeros(digits)
    IN Len(d) > Len(limit) \/ (Len(d) = Len(limit) /\ DigitsGreater(d, limit))

\* 2**31 - 1 and 2**31, the bounds of a C int, as digits.
CIntMaxDigits == <<"2", "1", "4", "7", "4", "8", "3", "6", "4", "7">>
CIntMinDigits == <<"2", "1", "4", "7", "4", "8", "3", "6", "4", "8">>

\* The parts of the literal int() reads: surrounding whitespace is skipped,
\* and so is whitespace between a sign and the digits.
IntLiteral(s) ==
    LET t == Strip(s)
        signed == t # <<>> /\ t[1] \in {"+", "-"}
    IN [negative |-> signed /\ t[1] = "-",
        body |-> IF signed THEN StripLeft(Tail(t)) ELSE t]

\* A Python int.  It has no bound, so it is kept as its sign and its decimal
\* digits without leading zeros; zero is <<"0">> and has no sign.
PyLong(negative, body) ==
    LET d == StripZeros(body)
    IN IF d = <<>> THEN [negative |-> FALSE, digits |-> <<"0">>]
       ELSE [negative |-> negative, digits |-> d]

\* The Python ints 0 and 1.
LongZero == PyLong(FALSE, <<"0">>)
LongOne == PyLong(FALSE, <<"1">>)

\* Is the magnitude of the Python int n at most 2**31 - 1.
IsSmall(n) == ~ExceedsDigits(n.digits, CIntMaxDigits)

\* The Python int n as an integer, for n with IsSmall(n).
AsInt(n) == IF n.negative THEN 0 - DigitsToInt(n.digits) ELSE DigitsToInt(n.digits)

\* n == i, n > i and n < i for a Python int n and an integer i of magnitude
\* at most 2**31 - 1.
LongEq(n, i) == IF IsSmall(n) THEN AsInt(n) = i ELSE FALSE
LongGt(n, i) == IF IsSmall(n) THEN AsInt(n) > i ELSE ~n.negative
LongLt(n, i) == IF IsSmall(n) THEN AsInt(n) < i ELSE n.negative

\* int(o) on an optional character sequence: [err |-> "", val |-> n] on success
\* with n the Python int of the literal, whatever its magnitude;
\* err = "TypeError" for None, err = "ValueError" for a string that is no
\* optionally signed decimal literal.
PyInt(o) ==
    IF o = <<>> THEN [err |-> "TypeError", val |-> LongZero]
    ELSE LET l == IntLiteral(o[1])
         IN IF IsDecimal(l.body)
            THEN [err |-> "", val |-> PyLong(l.negative, l.body)]
            ELSE [err |-> "ValueError", val |-> LongZero]

\* Does int(o) give a number that a C int cannot hold: datetime.date raises
\* OverflowError for such an argument.
OverflowsCInt(o) ==
    /\ o # <<>>
    /\ IsDecimal(IntLiteral(o[1]).body)
    /\ ExceedsDigits(IntLiteral(o[1]).body,
                     IF IntLiteral(o[1]).negative THEN CIntMinDigits ELSE CIntMaxDigits)

\* str.split(sep) for a one-character separator: empty pieces are kept.
RECURSIVE SplitFrom(_, _, _)
SplitFrom(s, sep, cur) ==
    IF s = <<>> THEN <<cur>>
    ELSE IF s[1] = sep THEN <<cur>> \o SplitFrom(Tail(s), sep, <<>>)
    ELSE SplitFrom(Tail(s), sep, Append(cur, s[1]))
Split(s, sep) == SplitFrom(s, sep, <<>>)

\* str.startswith for TLA+ strings: t.startswith(s)
IsStringPrefix(s, t) == Len(s) <= Len(t) /\ SubSeq(t, 1, Len(s)) = s

-----------------------------------------------------------------------------
(* django.template.defaultfilters.slugify: decompose by NFKD and keep the
   ASCII characters; drop every character that is no word character,
   whitespace or hyphen; strip surrounding whitespace; lower-case; replace
   each run of hyphens and whitespace by one hyphen. *)

\* unicodedata.normalize('NFKD', c).encode('ascii', 'ignore') for one
\* character: SUPERSCRIPT TWO decomposes to the digit 2.
Nfkd(c) == IF c = SuperscriptTwo THEN "2" ELSE c

RECURSIVE CollapseRuns(_, _)
CollapseRuns(s, inRun) ==
    IF s = <<>> THEN <<>>
    ELSE IF s[1] = "-" \/ IsSpaceChar(s[1])
         THEN (IF inRun THEN <<>> ELSE <<"-">>) \o CollapseRuns(Tail(s), TRUE)
         ELSE <<s[1]>> \o CollapseRuns(Tail(s), FALSE)

slugify(value) ==
    LET ascii == [i \in DOMAIN value |-> Nfkd(value[i])]
        kept == SelectSeq(ascii, LAMBDA c : IsWordChar(c) \/ IsSpaceChar(c) \/ c = "-")
        lowered == [i \in DOMAIN Strip(kept) |-> Lower(Strip(kept)[i])]
    IN CollapseRuns(lowered, FALSE)

-----------------------------------------------------------------------------
(* The data the views read: settings, the registered models, the categories
   and the placements.  Timestamps are records [y, m, d, h]. *)

SITE_ID == 1

Ts(y, m, d, h) == [y |-> y, m |-> m, d |-> d, h |-> h]
TsLess(a, b) ==
    \/ a.y < b.y
    \/ a.y = b.y /\ a.m < b.m
    \/ a.y = b.y /\ a.m = b.m /\ a.d < b.d
    \/ a.y = b.y /\ a.m = b.m /\ a.d = b.d /\ a.h < b.h
TsLeq(a, b) == a = b \/ TsLess(a, b)

\* datetime.now()
Now == Ts(2024, 3, 1, 12)

\* models.get_models(): the registered models, in registration order.
Models == <<
    [app_label |-> "articles", model |-> "article",
     verbose_name_plural |-> <<"A", "r", "t", "i", "c", "l", "e", "s">>],
    [app_label |-> "polls", model |-> "quiz",
     verbose_name_plural |-> <<"Q", "u", "i", "z", " ", "\t", "S", "e", "t", "s">>] >>

articles == <<"a", "r", "t", "i", "c", "l", "e", "s">>
quiz_sets == <<"q", "u", "i", "z", "-", "s", "e", "t", "s">>
Articles == <<"A", "r", "t", "i", "c", "l", "e", "s">>
CtNames == {articles, quiz_sets, Articles}

\* The models with a custom detail view registered in custom_urls.dispatcher.
CustomDetailModels == {2}

\* The Category rows.
Categories == {
    [site |-> 1, tree_path |-> "", path |-> "home", tree_parent |-> None],
    [site |-> 1, tree_path |-> "news", path |-> "news", tree_parent |-> Some("")],
    [site |-> 1, tree_path |-> "news/local", path |-> "news/local", tree_parent |-> Some("news")],
    [site |-> 1, tree_path |-> "about", path |-> "about", tree_parent |-> Some("")],
    [site |-> 1, tree_path |-> "newsroom", path |-> "newsroom", tree_parent |-> Some("")],
    [site |-> 2, tree_path |-> "sport", path |-> "sport", tree_parent |-> Some("")] }

\* The Placement rows, which are the Listing rows as well: 1, 5, 7 and 8 are
\* active, 2 has expired, 3 and 6 are not yet published, 4 is a static
\* placement of a model with a custom detail, 7 and 8 are in a category
\* below "news", 8 is of last year, 9 is in "newsroom", a category beside
\* "news" whose tree path starts with "news".  The category "about" has none.
Placements == {
    [id |-> 1, category |-> "news", model |-> 1, slug |-> "a", target_slug |-> "a", static |-> FALSE,
     publish_from |-> Ts(2024, 2, 29, 9), publish_to |-> None],
    [id |-> 2, category |-> "news", model |-> 1, slug |-> "b", target_slug |-> "b", static |-> FALSE,
     publish_from |-> Ts(2024, 2, 29, 6), publish_to |-> Some(Ts(2024, 2, 29, 20))],
    [id |-> 3, category |-> "news", model |-> 1, slug |-> "a", target_slug |-> "a-story", static |-> TRUE,
     publish_from |-> Ts(2024, 3, 2, 0), publish_to |-> None],
    [id |-> 4, category |-> "news", model |-> 2, slug |-> "a", target_slug |-> "a", static |-> TRUE,
     publish_from |-> Ts(2024, 1, 15, 8), publish_to |-> Some(Ts(2024, 12, 31, 0))],
    [id |-> 5, category |-> "", model |-> 1, slug |-> "a", target_slug |-> "a", static |-> FALSE,
     publish_from |-> Ts(2024, 2, 29, 18), publish_to |-> None],
    [id |-> 6, category |-> "", model |-> 2, slug |-> "b", target_slug |-> "b", static |-> FALSE,
     publish_from |-> Ts(2024, 3, 2, 7), publish_to |-> None],
    [id |-> 7, category |-> "news/local", model |-> 2, slug |-> "c", target_slug |-> "c", static |-> FALSE,
     publish_from |-> Ts(2024, 2, 29, 11), publish_to |-> None],
    [id |-> 8, category |-> "news/local", model |-> 1, slug |-> "d", target_slug |-> "d", static |-> FALSE,
     publish_from |-> Ts(2023, 12, 31, 10), publish_to |-> None],
    [id |-> 9, category |-> "newsroom", model |-> 1, slug |-> "e", target_slug |-> "e", static |-> FALSE,
     publish_from |-> Ts(2022, 6, 1, 10), publish_to |-> None] }

-----------------------------------------------------------------------------
(* Collaborators of the views.  A model instance carries `inst`, the call
   that created the Python object: two records are the same object only if
   they agree on it. *)

\* ContentType.objects.get_for_model(model)
ContentTypeFor(i) == [id |-> i, app_label |-> Models[i].app_label,
                      model |-> Models[i].model, inst |-> "get_for_model"]

\* get_cached_object_or_404(Category, tree_path=..., site__id=...): <<>> is Http404.
LookupCategory(tree_path, site) ==
    LET m == {c \in Categories : c.tree_path = tree_path /\ c.site = site}
    IN IF m = {} THEN None
       ELSE Some([tree_path |-> tree_path, site |-> site,
                  path |-> (CHOOSE c \in m : TRUE).path,
                  inst |-> "get_cached_object_or_404"])

\* A Placement as the ORM loads it: its category and its publishable's content
\* type are objects of their own, loaded through the relations.
PlacementInstance(p) ==
    [id |-> p.id, slug |-> p.slug, static |-> p.static,
     publish_from |-> p.publish_from, publish_to |-> p.publish_to,
     category |-> [tree_path |-> p.category, site |-> SITE_ID,
                   path |-> (CHOOSE c \in Categories :
                                c.tree_path = p.category /\ c.site = SITE_ID).path,
                   inst |-> "related"],
     publishable |-> [content_type |-> [id |-> p.model,
                                         app_label |-> Models[p.model].app_label,
                                         model |-> Models[p.model].model,
                                         inst |-> "related"],
                      target |-> [model |-> p.model, slug |-> p.target_slug]]]

\* get_cached_object_or_404(Placement, **filters) for the two filter sets of
\* ObjectDetail.get_context; <<>> is Http404.
GetPlacementOr404(matching) ==
    IF Cardinality(matching) = 1
    THEN Some(PlacementInstance(CHOOSE p \in matching : TRUE))
    ELSE None

\* Placement.is_active(): the current instant lies in [publish_from, publish_to).
is_active(p) ==
    /\ TsLeq(p.publish_from, Now)
    /\ (IF p.publish_to = None THEN TRUE ELSE TsLess(Now, Val(p.publish_to)))

\* custom_urls.dispatcher.has_custom_detail(obj)
has_custom_detail(obj) == obj.model \in CustomDetailModels

-----------------------------------------------------------------------------
\* A variant of get_templates that tries the content-type template before the
\* category template.
get_templates_type_first(name, slug, category, app_label, model_label) ==
    LET labels == Truthy(app_label) /\ Truthy(model_label)
        incat == category # None
        t1 == IF incat /\ labels /\ Truthy(slug)
              THEN <<"page/category/" \o Val(category).path \o "/content_type/"
                     \o Val(app_label) \o "." \o Val(model_label) \o "/"
                     \o Val(slug) \o "/" \o name>>
              ELSE <<>>
        t2 == IF incat /\ labels
              THEN <<"page/category/" \o Val(category).path \o "/content_type/"
                     \o Val(app_label) \o "." \o Val(model_label) \o "/" \o name>>
              ELSE <<>>
        t3 == IF incat
              THEN <<"page/category/" \o Val(category).path \o "/" \o name>>
              ELSE <<>>
        t4 == IF labels
              THEN <<"page/content_type/" \o Val(app_label) \o "." \o Val(model_label)
                     \o "/" \o name>>
              ELSE <<>>
    IN t1 \o t2 \o t4 \o t3 \o <<"page/" \o name>>

(* get_templates, views.py:288-308 *)

get_templates(name, slug, category, app_label, model_label) ==
    LET labels == Truthy(app_label) /\ Truthy(model_label)
        incat == category # None
        t1 == IF incat /\ labels /\ Truthy(slug)
              THEN <<"page/category/" \o Val(category).path \o "/content_type/"
                     \o Val(app_label) \o "." \o Val(model_label) \o "/"
                     \o Val(slug) \o "/" \o name>>
              ELSE <<>>
        t2 == IF incat /\ labels
              THEN <<"page/category/" \o Val(category).path \o "/content_type/"
                     \o Val(app_label) \o "." \o Val(model_label) \o "/" \o name>>
              ELSE <<>>
        t3 == IF incat
              THEN <<"page/category/" \o Val(category).path \o "/" \o name>>
              ELSE <<>>
        t4 == IF labels
              THEN <<"page/content_type/" \o Val(app_label) \o "." \o Val(model_label)
                     \o "/" \o name>>
              ELSE <<>>
    IN t1 \o t2 \o t3 \o t4 \o <<"page/" \o name>>

\* A variant that takes the placement's value for every argument that is
\* false, the empty string included.
get_templates_from_placement_if_false(name, pl, slug, category, app_label, model_label) ==
    get_templates(name,
        IF Truthy(slug) THEN slug ELSE Some(pl.slug),
        IF category = None THEN Some(pl.category) ELSE category,
        IF Truthy(app_label) THEN app_label ELSE Some(pl.publishable.content_type.app_label),
        IF Truthy(model_label) THEN model_label ELSE Some(pl.publishable.content_type.model))

\* get_templates_from_placement, views.py:311-323
get_templates_from_placement(name, pl, slug, category, app_label, model_label) ==
    get_templates(name,
        IF slug = None THEN Some(pl.slug) ELSE slug,
        IF category = None THEN Some(pl.category) ELSE category,
        IF app_label = None THEN Some(pl.publishable.content_type.app_label) ELSE app_label,
        IF model_label = None THEN Some(pl.publishable.content_type.model) ELSE model_label)

\* EllaCoreView.get_templates, views.py:40-52.  The context entry
\* 'content_type' is an Option: <<>> stands for the False of a listing
\* without a content type.
ViewGetTemplates(template_name, c) ==
    LET slug == IF "object" \in DOMAIN c THEN Some(c.object.slug) ELSE None
        has_ct == IF "content_type" \in DOMAIN c THEN c.content_type # None ELSE FALSE
    IN get_templates(template_name, slug, Some(c.category),
                     IF has_ct THEN Some(Val(c.content_type).app_label) ELSE None,
                     IF has_ct THEN Some(Val(c.content_type).model) ELSE None)

-----------------------------------------------------------------------------
(* Requests *)

Workers == {"w1", "w2"}

Date(y, m, d) == [year |-> Some(y), month |-> Some(m), day |-> Some(d)]
NoDate == [year |-> None, month |-> None, day |-> None]
Feb29 == Date(<<"2", "0", "2", "4">>, <<"0", "2">>, <<"2", "9">>)
Mar2 == Date(<<"2", "0", "2", "4">>, <<"3">>, <<"2">>)

DetailRequest(category, content_type, slug, date, url_remainder, is_staff) ==
    [view |-> "object_detail", category |-> category, content_type |-> content_type,
     slug |-> slug, year |-> date.year, month |-> date.month, day |-> date.day,
     url_remainder |-> url_remainder, is_staff |-> is_staff]

DetailRequests ==
    {DetailRequest(c, n, s, d, r, st) :
        c \in {"", "news", "sport"}, n \in CtNames, s \in {"a", "b"},
        d \in {NoDate, Feb29, Mar2},
        r \in {None, Some(<<>>), Some(<<"x", "/", "y">>)}, st \in BOOLEAN}

\* The requests of the concurrent specification: they differ in what reaches
\* the shared cache (the content-type slug) and in the branch each step takes.
ConcDetailRequests ==
    {DetailRequest("news", n, "a", NoDate, None, FALSE) : n \in CtNames}
    \cup {DetailRequest(c, articles, "a", Feb29, Some(<<"x", "/", "y">>), FALSE) :
            c \in {"news", "sport"}}

Http404 == [kind |-> "Http404"]
NoResponse == [kind |-> "none"]

-----------------------------------------------------------------------------
(* get_content_type, views.py:262-284 *)

\* A variant of the cache read that never finds the key.
CacheLookupAlwaysMiss(mapping, ct_name) == None

\* CONTENT_TYPE_MAPPING[ct_name], views.py:275: <<>> is the KeyError.
CacheLookup(mapping, ct_name) ==
    IF ct_name \in DOMAIN mapping THEN Some(mapping[ct_name]) ELSE None

\* A variant of the scan that falls back on the first registered model.
ScanModelsDefaultFirst(ct_name) ==
    LET m == {i \in DOMAIN Models : ct_name = slugify(Models[i].verbose_name_plural)}
    IN IF m = {} THEN Some(ContentTypeFor(1))
       ELSE Some(ContentTypeFor(CHOOSE i \in m : \A j \in m : i <= j))

\* A variant of the scan that compares ct_name with the plural name itself.
ScanModelsNoSlugify(ct_name) ==
    LET m == {i \in DOMAIN Models : ct_name = Models[i].verbose_name_plural}
    IN IF m = {} THEN None
       ELSE Some(ContentTypeFor(CHOOSE i \in m : \A j \in m : i <= j))

\* The for loop over models.get_models(), views.py:277-283: the content type
\* of the first model whose slugified plural name is ct_name, <<>> when the
\* loop ends without a break.
ScanModels(ct_name) ==
    LET m == {i \in DOMAIN Models : ct_name = slugify(Models[i].verbose_name_plural)}
    IN IF m = {} THEN None
       ELSE Some(ContentTypeFor(CHOOSE i \in m : \A j \in m : i <= j))

\* A variant of the store that keeps no other entry.
CacheStoreOnly(mapping, ct_name, c) == [n \in {ct_name} |-> c]

\* CONTENT_TYPE_MAPPING[ct_name] = ct, views.py:280
CacheStore(mapping, ct_name, c) ==
    [n \in DOMAIN mapping \cup {ct_name} |-> IF n = ct_name THEN c ELSE mapping[n]]

CtName(w) == IF request[w].view = "object_detail" THEN request[w].content_type
             ELSE Val(request[w].content_type)

\* Where the caller of get_content_type goes on: views.py:145 and views.py:235.
AfterContentType(w) == IF request[w].view = "object_detail" THEN "category" ELSE "query"

\* views.py:274-275 and, on a hit, the return of line 284.
GetContentTypeTry(w) ==
    /\ pc[w] = "gct_try"
    /\ cached_at_call' = [cached_at_call EXCEPT ![w] = CtName(w) \in DOMAIN CONTENT_TYPE_MAPPING]
    /\ LET hit == CacheLookup(CONTENT_TYPE_MAPPING, CtName(w))
       IN \/ /\ hit # None
             /\ ct' = [ct EXCEPT ![w] = hit]
             /\ pc' = [pc EXCEPT ![w] = AfterContentType(w)]
             /\ trace' = [trace EXCEPT ![w] = Append(@, "ContentTypeResolved")]
             /\ returned' = [returned EXCEPT ![CtName(w)] = @ \cup {Val(hit).id}]
          \/ /\ hit = None
             /\ pc' = [pc EXCEPT ![w] = "gct_scan"]
             /\ UNCHANGED <<ct, trace, returned>>
    /\ UNCHANGED <<CONTENT_TYPE_MAPPING, request, cat, placement, listing, context,
                   response, scanned, targs, tresult, placements>>

\* views.py:276-284: the scan after a KeyError, the store and the return, or Http404.
GetContentTypeScan(w) ==
    /\ pc[w] = "gct_scan"
    /\ scanned' = [scanned EXCEPT ![w] = TRUE]
    /\ LET found == ScanModels(CtName(w))
       IN \/ /\ found # None
             /\ CONTENT_TYPE_MAPPING' = CacheStore(CONTENT_TYPE_MAPPING, CtName(w), Val(found))
             /\ ct' = [ct EXCEPT ![w] = found]
             /\ pc' = [pc EXCEPT ![w] = AfterContentType(w)]
             /\ trace' = [trace EXCEPT ![w] = Append(@, "ContentTypeResolved")]
             /\ returned' = [returned EXCEPT ![CtName(w)] = @ \cup {Val(found).id}]
             /\ UNCHANGED response
          \/ /\ found = None
             /\ response' = [response EXCEPT ![w] = Http404]
             /\ pc' = [pc EXCEPT ![w] = "done"]
             /\ UNCHANGED <<CONTENT_TYPE_MAPPING, ct, trace, returned>>
    /\ UNCHANGED <<request, cat, placement, listing, context, cached_at_call, targs, tresult, placements>>

-----------------------------------------------------------------------------
(* ObjectDetail, views.py:105-179 *)

\* An idle worker takes a request and enters the view at `first`:
\* ObjectDetail.get_context calls get_content_type first (views.py:143),
\* ListContentType.get_context reads its parameters first (views.py:198).
BeginRequest(w, r, first) ==
    /\ pc[w] = "idle"
    /\ request' = [request EXCEPT ![w] = r]
    /\ pc' = [pc EXCEPT ![w] = first]
    /\ UNCHANGED <<CONTENT_TYPE_MAPPING, ct, cat, placement, listing, context, response,
                   trace, cached_at_call, scanned, returned, targs, tresult, placements>>

\* The response (or the exception) has left the view: the call's locals are
\* gone and the worker is free for the next request.
Finish(w) ==
    /\ pc[w] = "done"
    /\ pc' = [pc EXCEPT ![w] = "idle"]
    /\ request' = [request EXCEPT ![w] = [view |-> "none"]]
    /\ ct' = [ct EXCEPT ![w] = None]
    /\ cat' = [cat EXCEPT ![w] = None]
    /\ placement' = [placement EXCEPT ![w] = None]
    /\ listing' = [listing EXCEPT ![w] = None]
    /\ context' = [context EXCEPT ![w] = None]
    /\ response' = [response EXCEPT ![w] = NoResponse]
    /\ trace' = [trace EXCEPT ![w] = <<>>]
    /\ cached_at_call' = [cached_at_call EXCEPT ![w] = FALSE]
    /\ scanned' = [scanned EXCEPT ![w] = FALSE]
    /\ UNCHANGED <<CONTENT_TYPE_MAPPING, returned, targs, tresult, placements>>

StartDetail(w) == \E r \in DetailRequests : BeginRequest(w, r, "gct_try")
StartDetailConc(w) == \E r \in ConcDetailRequests : BeginRequest(w, r, "gct_try")

\* views.py:145
DetailCategory(w) ==
    /\ pc[w] = "category"
    /\ LET found == LookupCategory(request[w].category, SITE_ID)
       IN \/ /\ found # None
             /\ cat' = [cat EXCEPT ![w] = found]
             /\ pc' = [pc EXCEPT ![w] = "placement"]
             /\ trace' = [trace EXCEPT ![w] = Append(@, "CategoryResolved")]
             /\ UNCHANGED response
          \/ /\ found = None
             /\ response' = [response EXCEPT ![w] = Http404]
             /\ pc' = [pc EXCEPT ![w] = "done"]
             /\ UNCHANGED <<cat, trace>>
    /\ UNCHANGED <<CONTENT_TYPE_MAPPING, request, ct, placement, listing, context,
                   cached_at_call, scanned, returned, targs, tresult, placements>>

\* A variant of the filters without static=False in the dated lookup.
PlacementFilterAnyStatic(db, c, t, slug, year, month, day) ==
    IF TruthyChars(year)
    THEN {p \in db :
            /\ LongEq(PyInt(year).val, p.publish_from.y)
            /\ LongEq(PyInt(month).val, p.publish_from.m)
            /\ LongEq(PyInt(day).val, p.publish_from.d)
            /\ p.model = t.id
            /\ p.category = c.tree_path
            /\ p.slug = slug}
    ELSE {p \in db :
            /\ p.category = c.tree_path
            /\ p.model = t.id
            /\ p.slug = slug
            /\ p.static = TRUE}

\* The filters of views.py:147-158: the rows of `db` the lookup can return.
PlacementFilter(db, c, t, slug, year, month, day) ==
    IF TruthyChars(year)
    THEN {p \in db :
            /\ LongEq(PyInt(year).val, p.publish_from.y)
            /\ LongEq(PyInt(month).val, p.publish_from.m)
            /\ LongEq(PyInt(day).val, p.publish_from.d)
            /\ p.model = t.id
            /\ p.category = c.tree_path
            /\ p.slug = slug
            /\ p.static = FALSE}
    ELSE {p \in db :
            /\ p.category = c.tree_path
            /\ p.model = t.id
            /\ p.slug = slug
            /\ p.static = TRUE}

\* A variant that leaves the placement as the lookup returned it.
SubstituteNothing(pl, c, t) == pl

\* views.py:160-162: the placement with the objects already resolved put in.
Substitute(pl, c, t) ==
    [pl EXCEPT !.category = c, !.publishable.content_type = t]

\* views.py:147-162
DetailPlacement(w) ==
    /\ pc[w] = "placement"
    /\ LET r == request[w]
           found == GetPlacementOr404(PlacementFilter(placements, Val(cat[w]), Val(ct[w]),
                                                       r.slug, r.year, r.month, r.day))
       IN \/ /\ found # None
             /\ placement' = [placement EXCEPT ![w] =
                                 Some(Substitute(Val(found), Val(cat[w]), Val(ct[w])))]
             /\ pc' = [pc EXCEPT ![w] = "gate"]
             /\ trace' = [trace EXCEPT ![w] = Append(@, "PlacementResolved")]
             /\ UNCHANGED response
          \/ /\ found = None
             /\ response' = [response EXCEPT ![w] = Http404]
             /\ pc' = [pc EXCEPT ![w] = "done"]
             /\ UNCHANGED <<placement, trace>>
    /\ UNCHANGED <<CONTENT_TYPE_MAPPING, request, ct, cat, listing, context,
                   cached_at_call, scanned, returned, targs, tresult, placements>>

\* Variants of the condition: staff and active both required; no check at
\* all; only the end of the window checked.
AllowedActiveStaffOnly(pl, is_staff) == is_active(pl) /\ is_staff
AllowedAlways(pl, is_staff) == TRUE
AllowedUnlessExpired(pl, is_staff) ==
    is_staff \/ (IF pl.publish_to = None THEN TRUE ELSE TsLess(Now, Val(pl.publish_to)))

\* The condition of views.py:165, negated: the request may go on.
Allowed(pl, is_staff) == is_active(pl) \/ is_staff

\* views.py:169-177
DetailContext(pl, c, t, content_type_name) ==
    [placement |-> pl, object |-> pl.publishable.target, category |-> c,
     content_type_name |-> content_type_name, content_type |-> Some(t)]

\* views.py:165-179
DetailGate(w) ==
    /\ pc[w] = "gate"
    /\ \/ /\ Allowed(Val(placement[w]), request[w].is_staff)
          /\ context' = [context EXCEPT ![w] =
                            Some(DetailContext(Val(placement[w]), Val(cat[w]), Val(ct[w]),
                                               request[w].content_type))]
          /\ pc' = [pc EXCEPT ![w] = "dispatch"]
          /\ trace' = [trace EXCEPT ![w] = Append(@, "Authorized")]
          /\ UNCHANGED response
       \/ /\ ~Allowed(Val(placement[w]), request[w].is_staff)
          /\ response' = [response EXCEPT ![w] = Http404]
          /\ pc' = [pc EXCEPT ![w] = "done"]
          /\ UNCHANGED <<context, trace>>
    /\ UNCHANGED <<CONTENT_TYPE_MAPPING, request, ct, cat, placement, listing,
                   cached_at_call, scanned, returned, targs, tresult, placements>>

\* A variant that asks for the custom detail before looking at the remainder.
RenderPathCustomDetailFirst(url_remainder, obj) ==
    IF has_custom_detail(obj) THEN "call_custom_detail"
    ELSE IF TruthyChars(url_remainder) THEN "call_view"
    ELSE "render"

\* The branch of views.py:134-140.
RenderPath(url_remainder, obj) ==
    IF TruthyChars(url_remainder) THEN "call_view"
    ELSE IF has_custom_detail(obj) THEN "call_custom_detail"
    ELSE "render"

\* views.py:132-140: what ObjectDetail.__call__ returns for a built context.
DetailResponse(url_remainder, c) ==
    LET path == RenderPath(url_remainder, c.object)
    IN IF path = "call_view"
       THEN [kind |-> "call_view", bits |-> Split(Val(url_remainder), "/"), context |-> c]
       ELSE IF path = "call_custom_detail"
       THEN [kind |-> "call_custom_detail", context |-> c]
       ELSE [kind |-> "render", templates |-> ViewGetTemplates("object.html", c),
             context |-> c]

DetailDispatch(w) ==
    /\ pc[w] = "dispatch"
    /\ response' = [response EXCEPT ![w] =
                       DetailResponse(request[w].url_remainder, Val(context[w]))]
    /\ trace' = [trace EXCEPT ![w] =
                    Append(@, IF response'[w].kind = "render" THEN "StandardRender"
                              ELSE "CustomDispatch")]
    /\ pc' = [pc EXCEPT ![w] = "done"]
    /\ UNCHANGED <<CONTENT_TYPE_MAPPING, request, ct, cat, placement, listing, context,
                   cached_at_call, scanned, returned, targs, tresult, placements>>

-----------------------------------------------------------------------------
(* ListContentType, views.py:181-255 *)

MaxPageSize == 2

ListingRequest(category, date, content_type, paginate_by, p) ==
    [view |-> "list_content_type", category |-> category, year |-> date.year,
     month |-> date.month, day |-> date.day, content_type |-> content_type,
     paginate_by |-> paginate_by, p |-> p]

Y2024 == <<"2", "0", "2", "4">>
ListingDates ==
    {[year |-> y, month |-> m, day |-> d] :
        y \in {None, Some(Y2024)},
        m \in {None, Some(<<"2">>), Some(<<" ", "2">>), Some(<<"1", "3">>),
               Some(CIntMinDigits)},
        d \in {None, Some(<<"2", "9">>), Some(<<"3", "0">>)}}

\* request.GET['p']: <<>> when the parameter is not in the query string.
PageParams == {None, Some(<<"2">>), Some(<<"0">>), Some(<<"x">>), Some(<<>>),
               Some(<<"-", "1">>), Some(<<SuperscriptTwo>>), Some(CIntMinDigits)}

ListingRequests ==
    {ListingRequest(c, d, n, s, p) :
        c \in {"", "news", "news/local", "sport"}, d \in ListingDates,
        n \in {None, Some(articles), Some(Articles)},
        s \in 1..MaxPageSize, p \in PageParams}

ConcListingRequests ==
    {ListingRequest("news", [year |-> Some(Y2024), month |-> None, day |-> None], n, 1, p) :
        n \in {None, Some(articles)}, p \in {None, Some(<<"9">>)}}
    \cup {ListingRequest("sport", NoDate, None, 1, None),
          ListingRequest("sport", [year |-> Some(Y2024), month |-> None, day |-> None],
                         Some(quiz_sets), 1, None)}

IsLeap(y) == (y % 4 = 0 /\ y % 100 # 0) \/ y % 400 = 0
DaysInMonth(y, m) == IF m = 2 THEN (IF IsLeap(y) THEN 29 ELSE 28)
                     ELSE IF m \in {4, 6, 9, 11} THEN 30 ELSE 31

\* datetime.date(year, month, day) for integer arguments raises ValueError
\* unless this holds.
ValidDate(y, m, d) ==
    /\ y >= 1 /\ y <= 9999
    /\ m >= 1 /\ m <= 12
    /\ d >= 1 /\ d <= DaysInMonth(y, m)

\* datetime.date(y, m, d) for Python ints that fit a C int raises ValueError
\* unless this holds.
IsDate(y, m, d) ==
    IF IsSmall(y) /\ IsSmall(m) /\ IsSmall(d)
    THEN ValidDate(AsInt(y), AsInt(m), AsInt(d))
    ELSE FALSE

\* views.py:199-202: [err |-> "", val |-> page_no], or the exception of int.
PageNo(p) == IF p # None /\ IsDigit(Val(p)) THEN PyInt(p) ELSE [err |-> "", val |-> LongOne]

\* views.py:204-222: [err |-> "", kwa |-> the filters] or the exception raised.
\* int(year) is outside any try; the try blocks catch ValueError only.
\* datetime.date converts its arguments in order, each to a C int
\* (OverflowError for a number that does not fit, TypeError for None or a
\* string), and then checks the ranges (ValueError).
DateFilters(year, month, day) ==
    LET y == PyInt(year)
        m == PyInt(month)
        d == PyInt(day)
        raise(e) == [err |-> e, kwa |-> <<>>]
        ok(mf, df) == [err |-> "", kwa |-> [publish_from__year |-> y.val,
                                           publish_from__month |-> mf,
                                           publish_from__day |-> df]]
    IN IF y.err # "" THEN raise(y.err)
       ELSE IF TruthyChars(month) /\ m.err # "" THEN raise("Http404")
       ELSE IF TruthyChars(month) /\ (OverflowsCInt(year) \/ OverflowsCInt(month))
            THEN raise("OverflowError")
       ELSE IF TruthyChars(month) /\ ~IsDate(y.val, m.val, LongOne) THEN raise("Http404")
       ELSE IF ~TruthyChars(day)
            THEN ok(IF TruthyChars(month) THEN Some(m.val) ELSE None, None)
       ELSE IF d.err # "" THEN raise("Http404")
       ELSE IF OverflowsCInt(year) THEN raise("OverflowError")
       ELSE IF ~TruthyChars(month) THEN raise("TypeError")
       ELSE IF OverflowsCInt(day) THEN raise("OverflowError")
       ELSE IF ~IsDate(y.val, m.val, d.val) THEN raise("Http404")
       ELSE ok(Some(m.val), Some(d.val))

StartListing(w) == \E r \in ListingRequests : BeginRequest(w, r, "l_params")
StartListingConc(w) == \E r \in ConcListingRequests : BeginRequest(w, r, "l_params")

\* views.py:198-222
ListingParams(w) ==
    /\ pc[w] = "l_params"
    /\ LET r == request[w]
           page_no == PageNo(r.p)
           f == IF page_no.err # "" THEN [err |-> page_no.err, kwa |-> <<>>]
                ELSE DateFilters(r.year, r.month, r.day)
       IN \/ /\ f.err = ""
             /\ listing' = [listing EXCEPT ![w] =
                               Some([page_no |-> page_no.val, kwa |-> f.kwa])]
             /\ pc' = [pc EXCEPT ![w] = "l_category"]
             /\ trace' = [trace EXCEPT ![w] = Append(@, "ParamsParsed")]
             /\ UNCHANGED response
          \/ /\ f.err # ""
             /\ response' = [response EXCEPT ![w] = [kind |-> f.err]]
             /\ pc' = [pc EXCEPT ![w] = "done"]
             /\ UNCHANGED <<listing, trace>>
    /\ UNCHANGED <<CONTENT_TYPE_MAPPING, request, ct, cat, placement, context,
                   cached_at_call, scanned, returned, targs, tresult, placements>>

\* A variant of the filters that asks for the subtree of every category.
ListingKwaAlwaysChildren(kwa, c, category) ==
    [publish_from__year |-> kwa.publish_from__year,
     publish_from__month |-> kwa.publish_from__month,
     publish_from__day |-> kwa.publish_from__day,
     category |-> c,
     children |-> Some("ALL"),
     content_types |-> None]

\* The dictionary kwa after views.py:225-227: the category, and the key
\* 'children' when the category path is not empty; <<>> is a missing key.
ListingKwa(kwa, c, category) ==
    [publish_from__year |-> kwa.publish_from__year,
     publish_from__month |-> kwa.publish_from__month,
     publish_from__day |-> kwa.publish_from__day,
     category |-> c,
     children |-> IF category # "" THEN Some("ALL") ELSE None,
     content_types |-> None]

\* views.py:224-230: the category lookup, the category filters, then
\* get_content_type when a content type is asked for.
ListingCategory(w) ==
    /\ pc[w] = "l_category"
    /\ LET found == LookupCategory(request[w].category, SITE_ID)
       IN \/ /\ found # None
             /\ cat' = [cat EXCEPT ![w] = found]
             /\ listing' = [listing EXCEPT ![w] =
                               Some([page_no |-> Val(listing[w]).page_no,
                                     kwa |-> ListingKwa(Val(listing[w]).kwa, Val(found),
                                                        request[w].category)])]
             /\ pc' = [pc EXCEPT ![w] = IF TruthyChars(request[w].content_type)
                                         THEN "gct_try" ELSE "query"]
             /\ trace' = [trace EXCEPT ![w] = Append(@, "CategoryResolved")]
             /\ UNCHANGED response
          \/ /\ found = None
             /\ response' = [response EXCEPT ![w] = Http404]
             /\ pc' = [pc EXCEPT ![w] = "done"]
             /\ UNCHANGED <<cat, trace, listing>>
    /\ UNCHANGED <<CONTENT_TYPE_MAPPING, request, ct, placement, context,
                   cached_at_call, scanned, returned, targs, tresult, placements>>

\* Is the category with tree path `path` the one with tree path `root` or below it.
RECURSIVE InSubtree(_, _)
InSubtree(path, root) ==
    \/ path = root
    \/ LET c == CHOOSE c \in Categories : c.tree_path = path /\ c.site = SITE_ID
       IN IF c.tree_parent = None THEN FALSE ELSE InSubtree(Val(c.tree_parent), root)

\* The filters of views.py:204-231 as Listing.objects.get_queryset_wrapper
\* applies them.
ListingFilter(kwa, c, children, content_types) ==
    {p \in placements :
        /\ LongEq(kwa.publish_from__year, p.publish_from.y)
        /\ (IF kwa.publish_from__month = None THEN TRUE
            ELSE LongEq(Val(kwa.publish_from__month), p.publish_from.m))
        /\ (IF kwa.publish_from__day = None THEN TRUE
            ELSE LongEq(Val(kwa.publish_from__day), p.publish_from.d))
        /\ (IF children THEN InSubtree(p.category, c.tree_path)
            ELSE p.category = c.tree_path)
        /\ (IF content_types = None THEN TRUE ELSE p.model = Val(content_types).id)}

\* The query set in its order: publish_from descending.
RECURSIVE NewestFirst(_)
NewestFirst(S) ==
    IF S = {} THEN <<>>
    ELSE LET newest == CHOOSE p \in S : \A q \in S : TsLeq(q.publish_from, p.publish_from)
         IN <<newest>> \o NewestFirst(S \ {newest})

\* A variant of the page count that leaves out a last page that is not full.
NumPagesFullOnly(count, per_page) ==
    IF count < per_page THEN 1 ELSE count \div per_page

\* django.core.paginator.Paginator.num_pages (no orphans, an empty first
\* page allowed).
NumPages(count, per_page) ==
    IF count = 0 THEN 1 ELSE (count + per_page - 1) \div per_page

\* A variant of the page that starts every page at the first item.
PageObjectsFromFirst(qset, per_page, number) ==
    SubSeq(qset, 1, IF number * per_page < Len(qset) THEN number * per_page ELSE Len(qset))

\* Paginator.page(number).object_list
PageObjects(qset, per_page, number) ==
    SubSeq(qset, (number - 1) * per_page + 1,
           IF number * per_page < Len(qset) THEN number * per_page ELSE Len(qset))

\* views.py:229-233, after get_content_type has returned: the key
\* 'content_types' when a content type is asked for.
ListingKwaContentTypes(kwa, content_type, t) ==
    [kwa EXCEPT !.content_types =
        IF TruthyChars(content_type) THEN Some(<<Val(t)>>) ELSE None]

\* Listing.objects.get_queryset_wrapper(kwa), views.py:235
QuerySet(kwa) ==
    NewestFirst(ListingFilter(kwa, kwa.category, kwa.children # None,
                              IF kwa.content_types = None THEN None
                              ELSE Some(Val(kwa.content_types)[1])))

\* views.py:231-255
ListingQuery(w) ==
    /\ pc[w] = "query"
    /\ LET r == request[w]
           l == [page_no |-> Val(listing[w]).page_no,
                 kwa |-> ListingKwaContentTypes(Val(listing[w]).kwa, r.content_type,
                                                ct[w])]
           qset == QuerySet(l.kwa)
           num_pages == NumPages(Len(qset), r.paginate_by)
       IN \/ /\ (LongGt(l.page_no, num_pages) \/ LongLt(l.page_no, 1))
             /\ response' = [response EXCEPT ![w] = Http404]
             /\ pc' = [pc EXCEPT ![w] = "done"]
             /\ UNCHANGED <<context, trace>>
          \/ /\ ~(LongGt(l.page_no, num_pages) \/ LongLt(l.page_no, 1))
             /\ context' = [context EXCEPT ![w] = Some(
                    [page |-> l.page_no,
                     is_paginated |-> num_pages > 1,
                     results_per_page |-> r.paginate_by,
                     content_type |-> ct[w],
                     content_type_name |-> r.content_type,
                     listings |-> PageObjects(qset, r.paginate_by, AsInt(l.page_no)),
                     category |-> Val(cat[w])])]
             /\ pc' = [pc EXCEPT ![w] = "l_render"]
             /\ trace' = [trace EXCEPT ![w] = Append(@, "Paginated")]
             /\ UNCHANGED response
       /\ listing' = [listing EXCEPT ![w] = Some(l)]
    /\ UNCHANGED <<CONTENT_TYPE_MAPPING, request, ct, cat, placement,
                   cached_at_call, scanned, returned, targs, tresult, placements>>

\* EllaCoreView.__call__, views.py:58-60, for the listing view.
ListingRender(w) ==
    /\ pc[w] = "l_render"
    /\ response' = [response EXCEPT ![w] =
                       [kind |-> "render",
                        templates |-> ViewGetTemplates("listing.html", Val(context[w])),
                        context |-> Val(context[w])]]
    /\ trace' = [trace EXCEPT ![w] = Append(@, "StandardRender")]
    /\ pc' = [pc EXCEPT ![w] = "done"]
    /\ UNCHANGED <<CONTENT_TYPE_MAPPING, request, ct, cat, placement, listing, context,
                   cached_at_call, scanned, returned, targs, tresult, placements>>

-----------------------------------------------------------------------------
(* CategoryDetail, views.py:62-103 *)

\* The value of settings.ARCHIVE_ENTRY_YEAR in force for the call: <<>> when
\* the setting does not exist.
ArchiveSettings == {None, Some(0), Some(2020)}

CategoryRequest(category, setting) ==
    [view |-> "category_detail", category |-> category, ARCHIVE_ENTRY_YEAR |-> setting]

CategoryRequests ==
    {CategoryRequest(c, y) :
        c \in {"", "news", "news/local", "newsroom", "about", "sport"},
        y \in ArchiveSettings}

ConcCategoryRequests == {CategoryRequest("news", None)}

StartCategory(w) == \E r \in CategoryRequests : BeginRequest(w, r, "c_category")
StartCategoryConc(w) == \E r \in ConcCategoryRequests : BeginRequest(w, r, "c_category")

\* views.py:96
CategoryLookup(w) ==
    /\ pc[w] = "c_category"
    /\ LET found == LookupCategory(request[w].category, SITE_ID)
       IN \/ /\ found # None
             /\ cat' = [cat EXCEPT ![w] = found]
             /\ pc' = [pc EXCEPT ![w] = "c_year"]
             /\ trace' = [trace EXCEPT ![w] = Append(@, "CategoryResolved")]
             /\ UNCHANGED response
          \/ /\ found = None
             /\ response' = [response EXCEPT ![w] = Http404]
             /\ pc' = [pc EXCEPT ![w] = "done"]
             /\ UNCHANGED <<cat, trace>>
    /\ UNCHANGED <<CONTENT_TYPE_MAPPING, request, ct, placement, listing, context,
                   cached_at_call, scanned, returned, targs, tresult, placements>>

\* The rows of the query of views.py:85-89: the site, a tree path that starts
\* with the category's, a publish_from that is not after now.
ArchiveRows(db, c) ==
    {p \in db :
        /\ \E k \in Categories : k.tree_path = p.category /\ k.site = SITE_ID
        /\ IsStringPrefix(c.tree_path, p.category)
        /\ TsLeq(p.publish_from, Now)}

\* A variant that never looks at the setting.
archive_entry_year_inferred_only(setting, rows, fails) ==
    IF fails \/ rows = {}
    THEN {[year |-> Now.y, from |-> "YearFallback"]}
    ELSE {[year |-> p.publish_from.y, from |-> "YearFromListing"] : p \in rows}

\* CategoryDetail._archive_entry_year, views.py:79-92: the years the call can
\* return, each with the branch that gives it.  `rows` are the rows of the
\* query and `fails` says that the query raises; the query has no order of
\* its own in this file, so its first row is any of the rows.  Indexing an
\* empty result raises as well, and the bare except takes every exception.
archive_entry_year(setting, rows, fails) ==
    IF setting # None /\ Val(setting) # 0
    THEN {[year |-> Val(setting), from |-> "YearFromSetting"]}
    ELSE IF fails \/ rows = {}
    THEN {[year |-> Now.y, from |-> "YearFallback"]}
    ELSE {[year |-> p.publish_from.y, from |-> "YearFromListing"] : p \in rows}

\* views.py:97-103
CategoryContext(w) ==
    /\ pc[w] = "c_year"
    /\ \E fails \in BOOLEAN :
         \E y \in archive_entry_year(request[w].ARCHIVE_ENTRY_YEAR,
                                     ArchiveRows(placements, Val(cat[w])), fails) :
            /\ context' = [context EXCEPT ![w] =
                              Some([category |-> Val(cat[w]),
                                    is_homepage |-> request[w].category = "",
                                    archive_entry_year |-> y.year])]
            /\ trace' = [trace EXCEPT ![w] = Append(@, y.from)]
    /\ pc' = [pc EXCEPT ![w] = "c_render"]
    /\ UNCHANGED <<CONTENT_TYPE_MAPPING, request, ct, cat, placement, listing, response,
                   cached_at_call, scanned, returned, targs, tresult, placements>>

\* EllaCoreView.__call__, views.py:58-60, for the category view.
CategoryRender(w) ==
    /\ pc[w] = "c_render"
    /\ response' = [response EXCEPT ![w] =
                       [kind |-> "render",
                        templates |-> ViewGetTemplates("category.html", Val(context[w])),
                        context |-> Val(context[w])]]
    /\ trace' = [trace EXCEPT ![w] = Append(@, "StandardRender")]
    /\ pc' = [pc EXCEPT ![w] = "done"]
    /\ UNCHANGED <<CONTENT_TYPE_MAPPING, request, ct, cat, placement, listing, context,
                   cached_at_call, scanned, returned, targs, tresult, placements>>

-----------------------------------------------------------------------------
\* The database holds every placement of the model, or only those that are
\* active now.
Databases == {Placements, {p \in Placements : is_active(p)}}

Init ==
    /\ CONTENT_TYPE_MAPPING = <<>>
    /\ placements \in Databases
    /\ pc = [w \in Workers |-> "idle"]
    /\ request = [w \in Workers |-> [view |-> "none"]]
    /\ ct = [w \in Workers |-> None]
    /\ cat = [w \in Workers |-> None]
    /\ placement = [w \in Workers |-> None]
    /\ listing = [w \in Workers |-> None]
    /\ context = [w \in Workers |-> None]
    /\ response = [w \in Workers |-> NoResponse]
    /\ trace = [w \in Workers |-> <<>>]
    /\ cached_at_call = [w \in Workers |-> FALSE]
    /\ scanned = [w \in Workers |-> FALSE]
    /\ returned = [n \in CtNames |-> {}]
    /\ targs = None
    /\ tresult = None

Step(w) ==
    \/ GetContentTypeTry(w)
    \/ GetContentTypeScan(w)
    \/ DetailCategory(w)
    \/ DetailPlacement(w)
    \/ DetailGate(w)
    \/ DetailDispatch(w)
    \/ ListingParams(w)
    \/ ListingCategory(w)
    \/ ListingQuery(w)
    \/ ListingRender(w)
    \/ CategoryLookup(w)
    \/ CategoryContext(w)
    \/ CategoryRender(w)
    \/ Finish(w)

\* One request at a time, over all the requests of the model.
Next == StartDetail("w1") \/ StartListing("w1") \/ StartCategory("w1") \/ Step("w1")

Spec == Init /\ [][Next]_vars

\* Two workers serve requests concurrently; the steps of their requests
\* interleave at every access to CONTENT_TYPE_MAPPING.
NextConc ==
    \E w \in Workers :
        StartDetailConc(w) \/ StartListingConc(w) \/ StartCategoryConc(w) \/ Step(w)

SpecConc == Init /\ [][NextConc]_vars

-----------------------------------------------------------------------------
(* Direct calls of the template functions: the arguments are drawn in the
   initial state and the call computes the result. *)

TemplateArgs ==
    [name : {"object.html", "category.html"},
     slug : {None, Some(""), Some("my-story")},
     category : {None} \cup {LookupCategory(t, SITE_ID) : t \in {"", "news"}},
     app_label : {None, Some(""), Some("articles")},
     model_label : {None, Some(""), Some("article")}]

InitTemplates ==
    /\ CONTENT_TYPE_MAPPING = <<>>
    /\ placements = Placements
    /\ pc = [w \in Workers |-> "idle"]
    /\ request = [w \in Workers |-> [view |-> "none"]]
    /\ ct = [w \in Workers |-> None]
    /\ cat = [w \in Workers |-> None]
    /\ placement = [w \in Workers |-> None]
    /\ listing = [w \in Workers |-> None]
    /\ context = [w \in Workers |-> None]
    /\ response = [w \in Workers |-> NoResponse]
    /\ trace = [w \in Workers |-> <<>>]
    /\ cached_at_call = [w \in Workers |-> FALSE]
    /\ scanned = [w \in Workers |-> FALSE]
    /\ returned = [n \in CtNames |-> {}]
    /\ targs \in {Some(a) : a \in TemplateArgs}
    /\ tresult = None

CallGetTemplates ==
    /\ targs # None
    /\ tresult = None
    /\ LET a == Val(targs)
       IN tresult' = Some(get_templates(a.name, a.slug, a.category, a.app_label,
                                        a.model_label))
    /\ UNCHANGED <<flowVars, targs>>

NextTemplates == CallGetTemplates

SpecTemplates == InitTemplates /\ [][NextTemplates]_vars

-----------------------------------------------------------------------------
(* Direct calls of get_templates_from_placement. *)

\* The placement objects of the calls: one of an article in "news", one of
\* a quiz in "news", as the ORM loads them.
TemplatePlacements ==
    {PlacementInstance(p) : p \in {q \in Placements : q.id \in {1, 4}}}

PlacementTemplateArgs ==
    [name : {"object.html"},
     placement : TemplatePlacements,
     slug : {None, Some(""), Some("my-story")},
     category : {None} \cup {LookupCategory(t, SITE_ID) : t \in {"", "news"}},
     app_label : {None, Some(""), Some("articles")},
     model_label : {None, Some(""), Some("article")}]

InitPlacementTemplates ==
    /\ CONTENT_TYPE_MAPPING = <<>>
    /\ placements = Placements
    /\ pc = [w \in Workers |-> "idle"]
    /\ request = [w \in Workers |-> [view |-> "none"]]
    /\ ct = [w \in Workers |-> None]
    /\ cat = [w \in Workers |-> None]
    /\ placement = [w \in Workers |-> None]
    /\ listing = [w \in Workers |-> None]
    /\ context = [w \in Workers |-> None]
    /\ response = [w \in Workers |-> NoResponse]
    /\ trace = [w \in Workers |-> <<>>]
    /\ cached_at_call = [w \in Workers |-> FALSE]
    /\ scanned = [w \in Workers |-> FALSE]
    /\ returned = [n \in CtNames |-> {}]
    /\ targs \in {Some(a) : a \in PlacementTemplateArgs}
    /\ tresult = None

CallGetTemplatesFromPlacement ==
    /\ targs # None
    /\ tresult = None
    /\ LET a == Val(targs)
       IN tresult' = Some(get_templates_from_placement(a.name, a.placement, a.slug,
                              a.category, a.app_label, a.model_label))
    /\ UNCHANGED <<flowVars, targs>>

NextPlacementTemplates == CallGetTemplatesFromPlacement

SpecPlacementTemplates == InitPlacementTemplates /\ [][NextPlacementTemplates]_vars

-----------------------------------------------------------------------------
(* Properties *)

IsDetail(w) == request[w].view = "object_detail"
IsListing(w) == request[w].view = "list_content_type"
Delivered(w) == response[w].kind \in {"render", "call_view", "call_custom_detail"}
IsPrefix(s, t) == Len(s) <= Len(t) /\ SubSeq(t, 1, Len(s)) = s
Row(pl) == CHOOSE p \in placements : p.id = pl.id

\* C1: a finished detail request returned the placement and its context if
\* and only if the placement lookup succeeded and the placement is active or
\* the caller is staff; in every other case it ended in Http404.
C1_ReturnedIffActiveOrStaff ==
    \A w \in Workers :
        (pc[w] = "done" /\ IsDetail(w)) =>
            IF placement[w] # None
               /\ (is_active(Val(placement[w])) \/ request[w].is_staff)
            THEN /\ Delivered(w)
                 /\ response[w].context = Val(context[w])
                 /\ response[w].context.placement = Val(placement[w])
            ELSE response[w] = Http404

\* C1: staff was given a placement that is not active.
C1_StaffPreviewsInactive ==
    \E w \in Workers :
        /\ pc[w] = "done" /\ IsDetail(w) /\ request[w].is_staff
        /\ placement[w] # None /\ ~is_active(Val(placement[w]))
        /\ Delivered(w)

\* C2: get_templates returns exactly the applicable candidates, most
\* specific first: category+content type+slug, category+content type,
\* category, content type, and always last 'page/<name>'.
C2_TemplatesInOrder ==
    tresult # None =>
        LET a == Val(targs)
            hasCat == a.category # None
            hasLabels == Truthy(a.app_label) /\ Truthy(a.model_label)
            hasSlug == Truthy(a.slug)
            catDir == "page/category/" \o Val(a.category).path
            ctDir == "content_type/" \o Val(a.app_label) \o "." \o Val(a.model_label)
        IN Val(tresult) =
              (IF hasCat /\ hasLabels /\ hasSlug
               THEN <<catDir \o "/" \o ctDir \o "/" \o Val(a.slug) \o "/" \o a.name>>
               ELSE <<>>)
           \o (IF hasCat /\ hasLabels
               THEN <<catDir \o "/" \o ctDir \o "/" \o a.name>> ELSE <<>>)
           \o (IF hasCat THEN <<catDir \o "/" \o a.name>> ELSE <<>>)
           \o (IF hasLabels THEN <<"page/" \o ctDir \o "/" \o a.name>> ELSE <<>>)
           \o <<"page/" \o a.name>>

\* C2: a call with category, labels and slug returned the five candidates.
C2_AllFiveCandidates == tresult # None /\ Len(Val(tresult)) = 5

\* C3: a dated detail request resolves only a non-static placement published
\* on that calendar date, an undated one only a static placement; both match
\* the category, the content type and the slug of the request.
C3_LookupBranchesOnDate ==
    \A w \in Workers :
        (IsDetail(w) /\ placement[w] # None) =>
            LET r == request[w]
                row == Row(Val(placement[w]))
            IN /\ row.category = r.category
               /\ row.slug = r.slug
               /\ slugify(Models[row.model].verbose_name_plural) = r.content_type
               /\ (r.year # None /\ r.month # None /\ r.day # None) =>
                      /\ row.static = FALSE
                      /\ LongEq(PyInt(r.year).val, row.publish_from.y)
                      /\ LongEq(PyInt(r.month).val, row.publish_from.m)
                      /\ LongEq(PyInt(r.day).val, row.publish_from.d)
               /\ (r.year = None) => row.static = TRUE

\* C3: a dated request resolved a placement.
C3_DatedResolved ==
    \E w \in Workers : IsDetail(w) /\ placement[w] # None /\ request[w].year # None

RECURSIVE JoinBits(_)
JoinBits(bits) == IF Len(bits) = 1 THEN bits[1]
                  ELSE bits[1] \o <<"/">> \o JoinBits(Tail(bits))

\* C4: after a successful get_context exactly one path is taken: the
\* sub-path view with the remainder split on '/' when the remainder is not
\* empty, else the custom detail when one is registered, else the standard
\* render; each with the context that was built.
C4_OneRenderPath ==
    \A w \in Workers :
        (pc[w] = "done" /\ IsDetail(w) /\ context[w] # None) =>
            LET rem == request[w].url_remainder
                c == Val(context[w])
            IN /\ response[w].context = c
               /\ IF rem # None /\ Val(rem) # <<>>
                  THEN /\ response[w].kind = "call_view"
                       /\ JoinBits(response[w].bits) = Val(rem)
                       /\ \A i \in DOMAIN response[w].bits :
                              "/" \notin Range(response[w].bits[i])
                  ELSE IF c.object.model \in CustomDetailModels
                  THEN response[w].kind = "call_custom_detail"
                  ELSE /\ response[w].kind = "render"
                       /\ response[w].templates = ViewGetTemplates("object.html", c)

\* C4: a remainder went to the sub-path view although the object has a
\* custom detail.
C4_RemainderBeatsCustomDetail ==
    \E w \in Workers :
        /\ pc[w] = "done" /\ IsDetail(w) /\ context[w] # None
        /\ response[w].kind = "call_view"
        /\ Val(context[w]).object.model \in CustomDetailModels

DetailOrder == <<"ContentTypeResolved", "CategoryResolved", "PlacementResolved",
                 "Authorized">>

\* C5 as stated: the category is resolved before the content type.
C5_CategoryBeforeContentType ==
    \A w \in Workers :
        IsDetail(w) =>
            \E last \in {"CustomDispatch", "StandardRender"} :
                IsPrefix(trace[w], <<"CategoryResolved", "ContentTypeResolved",
                                     "PlacementResolved", "Authorized", last>>)

\* C5, amended: the steps of a detail request happen in the order
\* ContentTypeResolved, CategoryResolved, PlacementResolved, Authorized, then
\* CustomDispatch or StandardRender; no step is taken unless the one before
\* it was, and no dispatch or render without the active/staff check passed.
C5_ContentTypeBeforeCategory ==
    \A w \in Workers :
        IsDetail(w) =>
            /\ \E last \in {"CustomDispatch", "StandardRender"} :
                   IsPrefix(trace[w], Append(DetailOrder, last))
            /\ cat[w] # None => ct[w] # None
            /\ placement[w] # None => cat[w] # None
            /\ context[w] # None => placement[w] # None
            /\ Delivered(w) => context[w] # None
            /\ Len(trace[w]) >= 4 =>
                   (is_active(Val(placement[w])) \/ request[w].is_staff)

\* C5: a detail request went through every step to the standard render.
C5_AllStepsTaken ==
    \E w \in Workers :
        IsDetail(w) /\ trace[w] = Append(DetailOrder, "StandardRender")

\* C6: the placement a detail request returns carries, as its category and
\* as its publishable's content type, the objects the category lookup and
\* get_content_type returned in this request, and the context entries
\* 'category' and 'content_type' are those objects.
C6_ResolvedInstancesReused ==
    \A w \in Workers :
        (IsDetail(w) /\ Delivered(w)) =>
            LET c == response[w].context
            IN /\ c.placement.category = Val(cat[w])
               /\ c.placement.publishable.content_type = Val(ct[w])
               /\ c.category = Val(cat[w])
               /\ c.content_type = ct[w]
               /\ Val(cat[w]).inst = "get_cached_object_or_404"
               /\ Val(ct[w]).inst = "get_for_model"

\* C6: staff previewed an inactive placement.
C6_PreviewReturned ==
    \E w \in Workers :
        /\ IsDetail(w) /\ Delivered(w)
        /\ ~is_active(response[w].context.placement)

\* C7: a request that did not deliver a response ended in Http404, and a
\* request that ended in Http404 made no dispatch and no render.
C7_EveryFailureIsNotFound ==
    \A w \in Workers :
        pc[w] = "done" =>
            /\ Delivered(w) \/ response[w] = Http404
            /\ response[w] = Http404 =>
                   /\ "StandardRender" \notin Range(trace[w])
                   /\ "CustomDispatch" \notin Range(trace[w])

\* What a detail request returns when the database holds the rows `db`, all
\* of them active.
DetailOutcome(r, db) ==
    LET t == ScanModels(r.content_type)
        c == LookupCategory(r.category, SITE_ID)
    IN IF t = None THEN Http404
       ELSE IF c = None THEN Http404
       ELSE LET f == GetPlacementOr404(PlacementFilter(db, Val(c), Val(t), r.slug,
                                                       r.year, r.month, r.day))
            IN IF f = None THEN Http404
               ELSE DetailResponse(r.url_remainder,
                        DetailContext(Substitute(Val(f), Val(c), Val(t)), Val(c), Val(t),
                                      r.content_type))

\* C8: what a caller who is not staff gets from a detail request is what the
\* same request gets from the database without its inactive placements: an
\* inactive placement and a missing one both end in the same Http404.
C8_InactiveLooksMissing ==
    \A w \in Workers :
        (pc[w] = "done" /\ IsDetail(w) /\ ~request[w].is_staff) =>
            response[w] = DetailOutcome(request[w], {p \in placements : is_active(p)})

\* C8: a caller who is not staff asked for an inactive placement.
C8_InactiveRequested ==
    \E w \in Workers :
        /\ pc[w] = "done" /\ IsDetail(w) /\ ~request[w].is_staff
        /\ placement[w] # None /\ ~is_active(Val(placement[w]))

\* C9: every call of get_content_type for a slug returns the same
\* identifier, and a call that finds the slug in the cache returns the cached
\* identifier and does not scan the models.
C9_CachedCallDoesNotScan ==
    /\ \A n \in CtNames : Cardinality(returned[n]) <= 1
    /\ \A w \in Workers :
          cached_at_call[w] =>
              /\ ~scanned[w]
              /\ pc[w] # "gct_scan"
              /\ ct[w] = Some(CONTENT_TYPE_MAPPING[CtName(w)])

\* C9: a call found its slug in the cache.
C9_SecondCallHit ==
    \E w \in Workers : cached_at_call[w] /\ ct[w] # None

IsCorrect(n, c) ==
    /\ c.id \in DOMAIN Models
    /\ slugify(Models[c.id].verbose_name_plural) = n
    /\ c = ContentTypeFor(c.id)

\* C10: under any interleaving of the calls, every call that returns gives
\* the content type whose derived slug is the one asked for, all calls for a
\* slug give the same one, the cache holds that one for the slug, and a call
\* fails only when no model has the slug.
C10_ConcurrentCallsAgree ==
    /\ \A n \in DOMAIN CONTENT_TYPE_MAPPING : IsCorrect(n, CONTENT_TYPE_MAPPING[n])
    /\ \A n \in CtNames : Cardinality(returned[n]) <= 1
    /\ \A w \in Workers :
          /\ ct[w] # None =>
                /\ IsCorrect(CtName(w), Val(ct[w]))
                /\ ct[w] = Some(CONTENT_TYPE_MAPPING[CtName(w)])
          /\ (pc[w] = "done" /\ scanned[w] /\ ct[w] = None) =>
                \A i \in DOMAIN Models :
                    slugify(Models[i].verbose_name_plural) # CtName(w)

\* C10: two calls for the same slug both missed the cache, both scanned, and
\* both returned.
C10_BothScanned ==
    \E w1, w2 \in Workers :
        /\ w1 # w2
        /\ scanned[w1] /\ scanned[w2]
        /\ ct[w1] # None /\ ct[w2] # None
        /\ CtName(w1) = CtName(w2)

\* Does some registered model have the derived slug `n`.
HasModelWithSlug(n) ==
    \E i \in DOMAIN Models : slugify(Models[i].verbose_name_plural) = n

\* C11: a call of get_content_type for a slug that no registered model
\* derives ends in Http404 and nowhere else, and no step of such a call
\* changes the cache: the slug is never a key of it.
C11_FailedLookupLeavesCache ==
    [][\A w \in Workers :
          (pc[w] \in {"gct_try", "gct_scan"} /\ ~HasModelWithSlug(CtName(w))
             /\ pc'[w] # pc[w]) =>
              /\ CONTENT_TYPE_MAPPING' = CONTENT_TYPE_MAPPING
              /\ CtName(w) \notin DOMAIN CONTENT_TYPE_MAPPING'
              /\ \/ pc'[w] = "gct_scan" /\ response'[w] = NoResponse
                 \/ pc'[w] = "done" /\ response'[w] = Http404 /\ ct'[w] = None]_vars

\* C11: a call for a slug no model derives has scanned and failed; the cache
\* holds an entry of an earlier call and none for the failed slug.
C11_UnknownSlugFailed ==
    \E w \in Workers :
        /\ pc[w] = "done" /\ scanned[w] /\ response[w] = Http404
        /\ request[w].view \in {"object_detail", "list_content_type"}
        /\ ~HasModelWithSlug(CtName(w))
        /\ CtName(w) \notin DOMAIN CONTENT_TYPE_MAPPING
        /\ CONTENT_TYPE_MAPPING # <<>>

\* The listing request names a year and a month or day that is no calendar
\* date of that year: a month that is no number in 1..12, a day that is no
\* day of the month, a day without a usable month.
NamesInvalidDate(r) ==
    LET y == PyInt(r.year)
        m == PyInt(r.month)
        d == PyInt(r.day)
        monthOk == TruthyChars(r.month) /\ m.err = "" /\ IsDate(y.val, m.val, LongOne)
    IN /\ TruthyChars(r.year) /\ y.err = "" /\ LongGt(y.val, 0) /\ LongLt(y.val, 10000)
       /\ \/ TruthyChars(r.month) /\ ~monthOk
          \/ TruthyChars(r.day) /\ ~monthOk
          \/ TruthyChars(r.day) /\ monthOk /\ (d.err # "" \/ ~IsDate(y.val, m.val, d.val))

\* C12: a listing request whose month or day forms no valid calendar date
\* with the given year ends in Http404.
C12_InvalidDateIsNotFound ==
    \A w \in Workers :
        (pc[w] = "done" /\ IsListing(w) /\ NamesInvalidDate(request[w])) =>
            response[w] = Http404

\* One publish-from predicate for each of year, month, day that the listing
\* request supplies, and none for the others.
MatchesSuppliedDates(p, r) ==
    /\ (IF TruthyChars(r.year) THEN LongEq(PyInt(r.year).val, p.publish_from.y) ELSE TRUE)
    /\ (IF TruthyChars(r.month) THEN LongEq(PyInt(r.month).val, p.publish_from.m) ELSE TRUE)
    /\ (IF TruthyChars(r.day) THEN LongEq(PyInt(r.day).val, p.publish_from.d) ELSE TRUE)

\* C13: year, month and day of a listing request are each optional: a
\* request without any of them, for an existing category, a known content
\* type and the first page, succeeds; the filters of a request carry a month
\* and a day predicate exactly when the parameter is supplied; and the
\* listings of a request that succeeds match the supplied parameters.
C13_DatesOptional ==
    \A w \in Workers :
        (pc[w] = "done" /\ IsListing(w)) =>
            LET r == request[w]
            IN /\ ( /\ ~TruthyChars(r.year) /\ ~TruthyChars(r.month) /\ ~TruthyChars(r.day)
                    /\ LookupCategory(r.category, SITE_ID) # None
                    /\ (TruthyChars(r.content_type) => HasModelWithSlug(Val(r.content_type)))
                    /\ PageNo(r.p) = [err |-> "", val |-> LongOne] ) => Delivered(w)
               /\ listing[w] # None =>
                     /\ (Val(listing[w]).kwa.publish_from__month # None) = TruthyChars(r.month)
                     /\ (Val(listing[w]).kwa.publish_from__day # None) = TruthyChars(r.day)
               /\ Delivered(w) =>
                     \A i \in DOMAIN response[w].context.listings :
                         MatchesSuppliedDates(response[w].context.listings[i], r)

\* The listing request of worker w got as far as the query of views.py:235.
ReachedQuery(w) ==
    /\ pc[w] = "done" /\ IsListing(w)
    /\ listing[w] # None /\ cat[w] # None
    /\ (TruthyChars(request[w].content_type) => ct[w] # None)

\* The filtered set of the request, in the order of the query.
FilteredSeq(w) ==
    NewestFirst(ListingFilter(Val(listing[w]).kwa, Val(cat[w]),
                              request[w].category # "", ct[w]))

\* The number of pages that hold n items, s on a page.
PagesFor(n, s) == (n + s - 1) \div s

\* C14 as stated, totalPages being the number of pages the filtered set
\* fills: a page number outside 1..totalPages ends in Http404, one inside
\* succeeds, and no page returned is empty.
C14_OutOfRangeIsNotFound ==
    \A w \in Workers :
        ReachedQuery(w) =>
            LET n == Len(FilteredSeq(w))
                total == PagesFor(n, request[w].paginate_by)
                page_no == Val(listing[w]).page_no
                inRange == ~LongLt(page_no, 1) /\ ~LongGt(page_no, total)
            IN /\ inRange => Delivered(w)
               /\ ~inRange => response[w] = Http404
               /\ Delivered(w) => response[w].context.listings # <<>>

\* C14: a page number outside 1..totalPages ends in Http404 and one inside
\* succeeds, where an empty filtered set has one page: its page 1 succeeds
\* with no items, and no other page returned is empty.
C14_OutOfRangeUnlessEmptySet ==
    \A w \in Workers :
        ReachedQuery(w) =>
            LET n == Len(FilteredSeq(w))
                total == IF n = 0 THEN 1 ELSE PagesFor(n, request[w].paginate_by)
                page_no == Val(listing[w]).page_no
                inRange == ~LongLt(page_no, 1) /\ ~LongGt(page_no, total)
            IN /\ inRange => Delivered(w)
               /\ ~inRange => response[w] = Http404
               /\ Delivered(w) =>
                     (response[w].context.listings = <<>> <=> n = 0)

\* C14: the page after the last page of a filtered set that is not empty was
\* asked for and refused.
C14_PageAfterLastRefused ==
    \E w \in Workers :
        /\ ReachedQuery(w)
        /\ Len(FilteredSeq(w)) > 0
        /\ LongEq(Val(listing[w]).page_no,
                  PagesFor(Len(FilteredSeq(w)), request[w].paginate_by) + 1)
        /\ response[w] = Http404

\* Pages 1..k of the query set, one after the other.
RECURSIVE ConcatPages(_, _, _)
ConcatPages(qset, per_page, k) ==
    IF k = 0 THEN <<>>
    ELSE ConcatPages(qset, per_page, k - 1) \o PageObjects(qset, per_page, k)

\* C15: page p of a listing with page size S over a filtered set of N
\* placements holds min(p*S, N) - (p-1)*S items, newest first: the item at
\* position i of the page has exactly (p-1)*S + i - 1 placements of the
\* filtered set published after it.  Pages 1..totalPages one after the other
\* are the whole filtered set, each placement once.
C15_PageHoldsItsSlice ==
    \A w \in Workers :
        (ReachedQuery(w) /\ Delivered(w)) =>
            LET F == ListingFilter(Val(listing[w]).kwa, Val(cat[w]),
                                   request[w].category # "", ct[w])
                N == Cardinality(F)
                S == request[w].paginate_by
                p == AsInt(Val(listing[w]).page_no)
                page == response[w].context.listings
                last == IF p * S < N THEN p * S ELSE N
                all == ConcatPages(FilteredSeq(w), S, PagesFor(N, S))
            IN /\ Len(page) = last - (p - 1) * S
               /\ \A i \in DOMAIN page :
                     /\ page[i] \in F
                     /\ Cardinality({q \in F : TsLess(page[i].publish_from, q.publish_from)})
                           = (p - 1) * S + i - 1
               /\ Len(all) = N
               /\ Range(all) = F
               /\ \A i \in 1..Len(all) - 1 :
                     TsLess(all[i + 1].publish_from, all[i].publish_from)

\* C15: the last page of a listing of more than one page was returned, and
\* it is not full.
C15_LastPagePartial ==
    \E w \in Workers :
        /\ ReachedQuery(w) /\ Delivered(w)
        /\ LongGt(Val(listing[w]).page_no, 1)
        /\ LongEq(Val(listing[w]).page_no,
                  PagesFor(Len(FilteredSeq(w)), request[w].paginate_by))
        /\ response[w].context.listings # <<>>
        /\ Len(response[w].context.listings) < request[w].paginate_by

\* C16: the filters of every listing query name the resolved category; they
\* ask for its subtree if and only if the requested category path is not
\* empty; they name the one resolved content type when a content-type slug
\* is given and no content type otherwise.  The listings returned are in the
\* category itself for the root category, in the category or below it
\* otherwise, and of the content type asked for.
C16_CategoryFilterAlways ==
    \A w \in Workers :
        ReachedQuery(w) =>
            LET r == request[w]
                kwa == Val(listing[w]).kwa
            IN /\ Some(kwa.category) = LookupCategory(r.category, SITE_ID)
               /\ (kwa.children = Some("ALL")) = (r.category # "")
               /\ (kwa.children = None) = (r.category = "")
               /\ IF TruthyChars(r.content_type)
                  THEN /\ kwa.content_types # None
                       /\ Len(Val(kwa.content_types)) = 1
                       /\ IsCorrect(Val(r.content_type), Val(kwa.content_types)[1])
                  ELSE kwa.content_types = None
               /\ Delivered(w) =>
                     \A i \in DOMAIN response[w].context.listings :
                         LET p == response[w].context.listings[i]
                         IN /\ (r.category = "" => p.category = "")
                            /\ (r.category # "" =>
                                   \/ p.category = r.category
                                   \/ IsPrefix(r.category \o "/", p.category))
                            /\ (TruthyChars(r.content_type) =>
                                   slugify(Models[p.model].verbose_name_plural)
                                      = Val(r.content_type))

\* C16: a listing of a category other than the root returned a placement of
\* a category below it.
C16_SubtreeListed ==
    \E w \in Workers :
        /\ ReachedQuery(w) /\ Delivered(w)
        /\ request[w].category # ""
        /\ \E i \in DOMAIN response[w].context.listings :
               response[w].context.listings[i].category # request[w].category

\* C17: get_templates_from_placement returns what get_templates returns for
\* the supplied slug, category, app label and model label, each replaced by
\* the placement's own when and only when it was not supplied (is None); a
\* supplied value, the empty string included, is passed on as it is.
C17_SuppliedValuesWin ==
    tresult # None =>
        LET a == Val(targs)
            pl == a.placement
            slug == IF a.slug # None THEN a.slug ELSE Some(pl.slug)
            category == IF a.category # None THEN a.category ELSE Some(pl.category)
            app_label == IF a.app_label # None THEN a.app_label
                         ELSE Some(pl.publishable.content_type.app_label)
            model_label == IF a.model_label # None THEN a.model_label
                           ELSE Some(pl.publishable.content_type.model)
        IN /\ Val(tresult) = get_templates(a.name, slug, category, app_label, model_label)
           /\ (a.slug # None /\ a.category # None /\ a.app_label # None
                 /\ a.model_label # None) =>
                 Val(tresult) = get_templates(a.name, a.slug, a.category, a.app_label,
                                              a.model_label)
           /\ (a.slug = Some("") \/ a.app_label = Some("") \/ a.model_label = Some("")) =>
                 Len(Val(tresult)) < 5

\* C17: a call supplied the labels of another content type and the empty
\* slug and left the category to the placement.
C17_MixedCall ==
    /\ tresult # None
    /\ Val(targs).slug = Some("")
    /\ Val(targs).category = None
    /\ Val(targs).app_label = Some("articles")
    /\ Val(targs).model_label = Some("article")
    /\ Val(targs).placement.publishable.content_type.app_label = "polls"
    /\ Len(Val(tresult)) = 4

\* C18: under any interleaving of detail and listing requests, every step
\* leaves each entry of CONTENT_TYPE_MAPPING in place with its value; every
\* entry maps a slug to the content type of a model whose derived slug is
\* that key; and a step changes the cache only as the scan of a
\* get_content_type call that missed and found a model for its slug, by
\* setting the entry of that slug.
C18_CacheWriteOnce ==
    [][/\ \A n \in DOMAIN CONTENT_TYPE_MAPPING :
             /\ n \in DOMAIN CONTENT_TYPE_MAPPING'
             /\ CONTENT_TYPE_MAPPING'[n] = CONTENT_TYPE_MAPPING[n]
       /\ \A n \in DOMAIN CONTENT_TYPE_MAPPING' : IsCorrect(n, CONTENT_TYPE_MAPPING'[n])
       /\ CONTENT_TYPE_MAPPING' # CONTENT_TYPE_MAPPING =>
             \E w \in Workers :
                 /\ pc[w] = "gct_scan" /\ pc'[w] # "gct_scan"
                 /\ ~cached_at_call[w]
                 /\ HasModelWithSlug(CtName(w))
                 /\ DOMAIN CONTENT_TYPE_MAPPING'
                       = DOMAIN CONTENT_TYPE_MAPPING \cup {CtName(w)}
                 /\ ct'[w] = Some(CONTENT_TYPE_MAPPING'[CtName(w)])]_vars

\* C18: a detail request and a listing request run at the same time, each
\* has its content type, and the cache holds two entries.
C18_TwoEntriesTwoRequests ==
    \E w1, w2 \in Workers :
        /\ IsDetail(w1) /\ IsListing(w2)
        /\ ct[w1] # None /\ ct[w2] # None
        /\ CtName(w1) # CtName(w2)
        /\ Cardinality(DOMAIN CONTENT_TYPE_MAPPING) = 2

IsCategoryPage(w) == request[w].view = "category_detail"

C19_NoRowsCurrentYear ==
    \E w \in Workers :
        /\ pc[w] = "done" /\ IsCategoryPage(w) /\ Delivered(w)
        /\ request[w].ARCHIVE_ENTRY_YEAR = None
        /\ \A p \in placements : p.category # request[w].category
        /\ response[w].context.archive_entry_year = Now.y

\* C19: a page was returned with the year of a listing that is not the
\* current year.
C19_YearOfListing ==
    \E w \in Workers :
        /\ pc[w] = "done" /\ IsCategoryPage(w) /\ Delivered(w)
        /\ "YearFromListing" \in Range(trace[w])
        /\ response[w].context.archive_entry_year # Now.y

\* The page parameter is present and consists of the digits 0..9 only.
AllDigits(p) == p # None /\ Val(p) # <<>> /\ \A i \in DOMAIN Val(p) : Val(p)[i] \in Range(Digits)

\* C20: a listing request whose parameter 'p' is absent or not all digits is
\* served as page 1 and does not fail because of the parameter; an all-digit
\* 'p' is the page number, and page 0 ends in Http404 as out of range.
C20_MalformedPageIsPageOne ==
    \A w \in Workers :
        (pc[w] = "done" /\ IsListing(w)) =>
            LET r == request[w]
                datesOk == DateFilters(r.year, r.month, r.day).err = ""
            IN /\ datesOk => listing[w] # None
               /\ listing[w] # None =>
                     Val(listing[w]).page_no =
                        (IF AllDigits(r.p) THEN PyLong(FALSE, Val(r.p)) ELSE LongOne)
               /\ (ReachedQuery(w) /\ AllDigits(r.p) /\ StripZeros(Val(r.p)) = <<>>) =>
                     response[w] = Http404
               /\ (ReachedQuery(w) /\ ~AllDigits(r.p)) => Delivered(w)

=============================================================================
